---- MODULE Spec2Model ----
(***************************************************************************)
(* Model of github.com/stackus/envelope: the type registry (registry.go),  *)
(* its key derivation (getKey) and the two-stage serialize / deserialize   *)
(* protocol over the injected payload and envelope codecs.                 *)
(***************************************************************************)
EXTENDS Integers, Sequences, FiniteSets, TLC

VARIABLES
    factories,      \* registry.factories: map[string]func() any
    serde,          \* registry.serde: the payload codec
    envelopeSerde,  \* registry.envelopeSerde: the envelope codec
    opts,           \* the options NewRegistry was called with
    last,           \* the call in progress at the caller: operation, argument, result
    running,        \* the calls in progress at concurrent callers, step by step
    heap,           \* the instances the factories have allocated, by address
    inserted        \* history: each key register has stored, with the first factory stored

vars == <<factories, serde, envelopeSerde, opts, last, running, heap, inserted>>

-----------------------------------------------------------------------------
(* Bounds *)

\* longest batch handed to Register(vs ...any) / RegisterFactory(fns ...func() any)
MaxBatch == 2

-----------------------------------------------------------------------------
(* Go values handed to the registry as `any` *)

\* Named struct types.  Test, KeyedTest and PrefixedTest are the fixtures of
\* registry_test.go; KeyedPrefixedTest has both capabilities (value receivers)
\* and the same override as KeyedTest; PtrKeyedTest declares EnvelopeKey on
\* the pointer receiver; fork.Test is the type Test of a second package that
\* is also named envelope_test and lives at another import path.
Types ==
    {"Test", "KeyedTest", "PrefixedTest", "KeyedPrefixedTest", "PtrKeyedTest", "fork.Test"}

\* reflect.Type.PkgPath(): the import path of the package declaring the type
PkgPath(t) ==
    IF t = "fork.Test" THEN "example.com/fork/envelope_test"
    ELSE "github.com/stackus/envelope_test"

\* the name the package clause of that package gives it
PkgName(t) == "envelope_test"

\* reflect.Type.Name(): the type's name within its package
TypeName(t) == IF t = "fork.Test" THEN "Test" ELSE t

\* reflect.Type.String() of the named type: package name (not import path),
\* dot, type name
TypeString(t) == PkgName(t) \o "." \o TypeName(t)

\* receiver on which the type declares EnvelopeKey(): "value", "pointer" or "none"
KeyRecv(t) ==
    CASE t = "KeyedTest" -> "value"
      [] t = "KeyedPrefixedTest" -> "value"
      [] t = "PtrKeyedTest" -> "pointer"
      [] OTHER -> "none"

\* the string the type's EnvelopeKey() returns
EnvelopeKey(t) ==
    CASE t = "PtrKeyedTest" -> "ptrkeyed"
      [] OTHER -> "test"

\* receiver on which the type declares (or is promoted) EnvelopeKeyPrefix()
PrefixRecv(t) ==
    CASE t = "PrefixedTest" -> "value"
      [] t = "KeyedPrefixedTest" -> "value"
      [] OTHER -> "none"

\* the string the type's EnvelopeKeyPrefix() returns
EnvelopeKeyPrefix(t) == "prefix."

\* contents of the struct's only field, `Test string`
Fields == {"", "testing"}

\* the untyped nil interface value
NilAny == [form |-> "nil", type |-> "none", field |-> ""]

\* T{Test: f}
Val(t, f) == [form |-> "val", type |-> t, field |-> f]

\* &T{Test: f}
Ptr(t, f) == [form |-> "ptr", type |-> t, field |-> f]

\* (*T)(nil)
NilPtr(t) == [form |-> "nilptr", type |-> t, field |-> ""]

Values ==
    {Val(t, f) : t \in Types, f \in Fields} \cup {Ptr(t, f) : t \in Types, f \in Fields}
        \cup {NilPtr(t) : t \in Types} \cup {NilAny}

\* a kind test that takes every value for a pointer
IsPtrKind_Always(v) == TRUE

\* reflect.TypeOf(v).Kind() == reflect.Ptr
IsPtrKind(v) == v.form \in {"ptr", "nilptr"}

\* v.(interface{ M() string }) succeeds: M is in the method set of v's dynamic
\* type.  recv is the receiver on which the pointer-stripped type declares M.
HasMethod(v, recv) ==
    \/ v.form = "val" /\ recv = "value"
    \/ v.form \in {"ptr", "nilptr"} /\ recv \in {"value", "pointer"}

\* calling a value-receiver method through a nil pointer dereferences it
CallPanics(v, recv) == v.form = "nilptr" /\ recv = "value"

-----------------------------------------------------------------------------
(* Key derivation *)

KeyPanic == [panic |-> TRUE, key |-> ""]

KeyOk(k) == [panic |-> FALSE, key |-> k]

\* getKey with the prefix prepended to the override as well
getKey_PrefixedOverride(v) ==
    LET prefixer == HasMethod(v, PrefixRecv(v.type))
        keyer    == HasMethod(v, KeyRecv(v.type))
        prefix   == IF prefixer THEN EnvelopeKeyPrefix(v.type) ELSE ""
    IN  IF prefixer /\ CallPanics(v, PrefixRecv(v.type)) THEN KeyPanic
        ELSE IF keyer
            THEN IF CallPanics(v, KeyRecv(v.type)) THEN KeyPanic
                 ELSE KeyOk(prefix \o EnvelopeKey(v.type))
        ELSE IF v.form = "nil" THEN KeyPanic
        ELSE KeyOk(prefix \o TypeString(v.type))

\* getKey with the prefix left off the type name
getKey_NoPrefix(v) ==
    LET prefixer == HasMethod(v, PrefixRecv(v.type))
        keyer    == HasMethod(v, KeyRecv(v.type))
    IN  IF prefixer /\ CallPanics(v, PrefixRecv(v.type)) THEN KeyPanic
        ELSE IF keyer
            THEN IF CallPanics(v, KeyRecv(v.type)) THEN KeyPanic
                 ELSE KeyOk(EnvelopeKey(v.type))
        ELSE IF v.form = "nil" THEN KeyPanic
        ELSE KeyOk(TypeString(v.type))

getKey(v) ==
    LET prefixer == HasMethod(v, PrefixRecv(v.type))
        keyer    == HasMethod(v, KeyRecv(v.type))
        prefix   == IF prefixer THEN EnvelopeKeyPrefix(v.type) ELSE ""
    IN  IF prefixer /\ CallPanics(v, PrefixRecv(v.type)) THEN KeyPanic
        ELSE IF keyer
            THEN IF CallPanics(v, KeyRecv(v.type)) THEN KeyPanic
                 ELSE KeyOk(EnvelopeKey(v.type))
        \* reflect.TypeOf(nil) is the nil Type: t.Kind() dereferences it
        ELSE IF v.form = "nil" THEN KeyPanic
        ELSE KeyOk(prefix \o TypeString(v.type))

-----------------------------------------------------------------------------
(* Codecs.  Byte strings are sequences of tokens. *)

\* new(EnvelopeMsg): Key is a *string (empty sequence = nil), Payload a []byte
EmptyMsg == [Key |-> <<>>, Payload |-> <<>>]

\* &EnvelopeMsg{Key: &key, Payload: data}
Msg(key, data) == [Key |-> <<key>>, Payload |-> data]

IsMsg(x) == "Key" \in DOMAIN x

CodecOk(x) == [err |-> "nil", out |-> x]

CodecErr(e) == [err |-> e, out |-> <<>>]

CodecPanic == [err |-> "panic", out |-> <<>>]

\* json.Marshal
JsonMarshal(x) ==
    IF IsMsg(x)
    THEN <<"{">> \o (IF x.Key = <<>> THEN <<>> ELSE <<"key", x.Key[1]>>)
                 \o (IF x.Payload = <<>> THEN <<>> ELSE <<"payload">> \o x.Payload)
                 \o <<"}">>
    ELSE IF x.form \in {"nil", "nilptr"} THEN <<"null">>
    ELSE <<"{", "Test", x.field, "}">>

\* the members of a JSON object text, or <<"!">> when data is no object
JsonMembers(data) ==
    IF Len(data) >= 2 /\ data[1] = "{" /\ data[Len(data)] = "}"
    THEN SubSeq(data, 2, Len(data) - 1)
    ELSE <<"!">>

\* json.Unmarshal(data, target): target populated from data
JsonUnmarshal(data, target) ==
    LET m == JsonMembers(data) IN
    \* the text is validated before the target is looked at
    IF data # <<"null">> /\ m = <<"!">> THEN CodecErr("json.SyntaxError")
    ELSE IF ~IsMsg(target) /\ target.form # "ptr" THEN CodecErr("json.InvalidUnmarshalError")
    ELSE IF data = <<"null">> \/ m = <<>> THEN CodecOk(target)
    ELSE IF IsMsg(target)
        THEN IF m[1] = "key" /\ Len(m) >= 2
             THEN LET rest == SubSeq(m, 3, Len(m)) IN
                  IF rest = <<>> THEN CodecOk([target EXCEPT !.Key = <<m[2]>>])
                  ELSE IF rest[1] = "payload"
                      THEN CodecOk([Key |-> <<m[2]>>, Payload |-> Tail(rest)])
                  ELSE CodecErr("json.SyntaxError")
             ELSE IF m[1] = "payload" THEN CodecOk([target EXCEPT !.Payload = Tail(m)])
             \* members the struct does not declare are skipped
             ELSE IF m[1] = "Test" /\ Len(m) = 2 THEN CodecOk(target)
             ELSE CodecErr("json.SyntaxError")
    ELSE IF m[1] = "Test" /\ Len(m) = 2 THEN CodecOk([target EXCEPT !.field = m[2]])
    ELSE IF m[1] \in {"key", "payload"} THEN CodecOk(target)
    ELSE CodecErr("json.SyntaxError")

\* proto.Marshal(v.(proto.Message)): the assertion panics for any other type
ProtoMarshal(x) ==
    IF ~IsMsg(x) THEN CodecPanic
    ELSE CodecOk((IF x.Key = <<>> THEN <<>> ELSE <<"1:", x.Key[1]>>)
                 \o (IF x.Payload = <<>> THEN <<>> ELSE <<"2:">> \o x.Payload))

\* proto.Unmarshal(data, v.(proto.Message)): the message is reset, then merged
ProtoUnmarshal(data, target) ==
    IF ~IsMsg(target) THEN CodecPanic
    ELSE IF data = <<>> THEN CodecOk(EmptyMsg)
    ELSE IF data[1] = "1:" /\ Len(data) >= 2
        THEN LET rest == SubSeq(data, 3, Len(data)) IN
             IF rest = <<>> THEN CodecOk([Key |-> <<data[2]>>, Payload |-> <<>>])
             ELSE IF rest[1] = "2:"
                 THEN CodecOk([Key |-> <<data[2]>>, Payload |-> Tail(rest)])
             ELSE CodecErr("proto.Error")
    ELSE IF data[1] = "2:" THEN CodecOk([Key |-> <<>>, Payload |-> Tail(data)])
    ELSE CodecErr("proto.Error")

\* Serde.Serialize of the four codecs
SerdeSerialize(s, x) ==
    CASE s = "JsonSerde" -> CodecOk(JsonMarshal(x))
      [] s = "ProtoSerde" -> ProtoMarshal(x)
      [] s = "brokenSerializer" -> CodecErr("broken")
      [] s = "brokenDeserializer" -> CodecOk(JsonMarshal(x))

\* Serde.Deserialize of the four codecs
SerdeDeserialize(s, data, target) ==
    CASE s = "JsonSerde" -> JsonUnmarshal(data, target)
      [] s = "ProtoSerde" -> ProtoUnmarshal(data, target)
      [] s = "brokenSerializer" -> JsonUnmarshal(data, target)
      [] s = "brokenDeserializer" -> CodecErr("broken")

\* the RegistryOption WithSerde(serde) returns
WithSerde(s) == [opt |-> "WithSerde", serde |-> s]

\* the RegistryOption WithEnvelopeSerde(serde) returns
WithEnvelopeSerde(s) == [opt |-> "WithEnvelopeSerde", serde |-> s]

\* an option writing the payload codec whichever option it is
ApplyOption_AlwaysSerde(o, r) == [r EXCEPT !.serde = o.serde]

\* opt(r): the option's closure run on the registry under construction
ApplyOption(o, r) ==
    IF o.opt = "WithSerde" THEN [r EXCEPT !.serde = o.serde]
    ELSE [r EXCEPT !.envelopeSerde = o.serde]

\* for _, opt := range opts { opt(r) }
RECURSIVE ApplyOptions(_, _)
ApplyOptions(os, r) ==
    IF os = <<>> THEN r ELSE ApplyOptions(Tail(os), ApplyOption(Head(os), r))

\* the codecs of NewRegistry(opts...): the defaults, then the options in order
NewRegistry(os) == ApplyOptions(os, [serde |-> "JsonSerde", envelopeSerde |-> "ProtoSerde"])

\* option lists handed to NewRegistry: none, and each codec in turn replaced
\* by a failing one
OptionLists ==
    { <<>>,
      <<WithSerde("brokenSerializer")>>,
      <<WithSerde("brokenDeserializer")>>,
      <<WithEnvelopeSerde("brokenSerializer")>>,
      <<WithEnvelopeSerde("brokenDeserializer")>> }

-----------------------------------------------------------------------------
(* Factories *)

\* the closure Register stores: func() any { return reflect.New(t).Interface() }
NewFactory(t) == [kind |-> "reflect", type |-> t, ret |-> NilAny]

\* a caller's factory, returning ret
UserFactory(ret) == [kind |-> "user", type |-> ret.type, ret |-> ret]

\* Register's closure returning reflect.Zero(t) in place of reflect.New(t)
Invoke_ZeroValue(fn) == IF fn.kind = "reflect" THEN Val(fn.type, "") ELSE fn.ret

\* fn()
Invoke(fn) == IF fn.kind = "reflect" THEN Ptr(fn.type, "") ELSE fn.ret

-----------------------------------------------------------------------------
(* Errors and results *)

NoErr == [kind |-> "nil", key |-> ""]

\* ErrUnregisteredKey(key), ErrReregisteredKey(key), ErrFactoryReturnsNil(""),
\* ErrFactoryDoesNotReturnPointer(key): a string type carrying the key
Err(kind, key) == [kind |-> kind, key |-> key]

\* the call does not return: a run-time panic unwinds it
PanicErr == Err("panic", "")

\* `return nil, err`: the codec's own error, handed on as it is
CodecError(e) == IF e = "panic" THEN PanicErr ELSE Err(e, "")

\* the nil Envelope returned beside an error
NoEnvelope == [key |-> "", payload |-> NilAny, data |-> <<>>]

\* &envelope{key, payload, data}
Envelope(key, payload, data) == [key |-> key, payload |-> payload, data |-> data]

\* what Serialize / Deserialize hand back, with the collaborators they invoked
Ret(err, env, trace) == [err |-> err, env |-> env, trace |-> trace]

\* no call in progress
NoCall == [op |-> "none", arg |-> <<>>, ret |-> <<>>, pre |-> <<>>]

Call(op, arg, ret, pre) == [op |-> op, arg |-> arg, ret |-> ret, pre |-> pre]

-----------------------------------------------------------------------------
(* The registry's operations as functions of the table f and the codecs *)

\* register storing the factory in a map made anew
register_FreshMap(f, key, fn) ==
    IF key \in DOMAIN f
    THEN [factories |-> f, err |-> Err("ErrReregisteredKey", key)]
    ELSE [factories |-> [k \in {key} |-> fn], err |-> NoErr]

\* register storing the factory whether or not the key exists
register_Overwrite(f, key, fn) ==
    [factories |-> [k \in DOMAIN f \cup {key} |-> IF k = key THEN fn ELSE f[k]],
     err |-> NoErr]

register(f, key, fn) ==
    IF key \in DOMAIN f
    THEN [factories |-> f, err |-> Err("ErrReregisteredKey", key)]
    ELSE [factories |-> [k \in DOMAIN f \cup {key} |-> IF k = key THEN fn ELSE f[k]],
          err |-> NoErr]

\* Register going on to the remaining elements after a failed one
RECURSIVE RegisterLoop_KeepsGoing(_, _, _)
RegisterLoop_KeepsGoing(f, vs, n) ==
    IF vs = <<>> THEN [factories |-> f, err |-> NoErr, examined |-> n]
    ELSE LET v == Head(vs)
             k == getKey(v)
         IN  IF k.panic THEN [factories |-> f, err |-> PanicErr, examined |-> n + 1]
             ELSE LET r == register(f, k.key, NewFactory(v.type)) IN
                  IF r.err # NoErr
                  THEN [RegisterLoop_KeepsGoing(f, Tail(vs), n + 1) EXCEPT !.err = r.err]
                  ELSE RegisterLoop_KeepsGoing(r.factories, Tail(vs), n + 1)

\* the loop of Register over vs; n counts the elements the loop has started on
RECURSIVE RegisterLoop(_, _, _)
RegisterLoop(f, vs, n) ==
    IF vs = <<>> THEN [factories |-> f, err |-> NoErr, examined |-> n]
    ELSE LET v == Head(vs)
             k == getKey(v)
         IN  IF k.panic THEN [factories |-> f, err |-> PanicErr, examined |-> n + 1]
             ELSE LET r == register(f, k.key, NewFactory(v.type)) IN
                  IF r.err # NoErr
                  THEN [factories |-> f, err |-> r.err, examined |-> n + 1]
                  ELSE RegisterLoop(r.factories, Tail(vs), n + 1)

\* RegisterFactory without the nil check on the sample
RECURSIVE RegisterFactoryLoop_NoNilCheck(_, _, _)
RegisterFactoryLoop_NoNilCheck(f, fns, n) ==
    IF fns = <<>> THEN [factories |-> f, err |-> NoErr, examined |-> n]
    ELSE LET fn == Head(fns)
             v  == Invoke(fn)
             k  == getKey(v)
         IN  IF k.panic THEN [factories |-> f, err |-> PanicErr, examined |-> n + 1]
             ELSE IF ~IsPtrKind(v)
             THEN [factories |-> f, err |-> Err("ErrFactoryDoesNotReturnPointer", k.key),
                   examined |-> n + 1]
             ELSE LET r == register(f, k.key, fn) IN
                  IF r.err # NoErr
                  THEN [factories |-> f, err |-> r.err, examined |-> n + 1]
                  ELSE RegisterFactoryLoop_NoNilCheck(r.factories, Tail(fns), n + 1)

\* the loop of RegisterFactory over fns
RECURSIVE RegisterFactoryLoop(_, _, _)
RegisterFactoryLoop(f, fns, n) ==
    IF fns = <<>> THEN [factories |-> f, err |-> NoErr, examined |-> n]
    ELSE LET fn == Head(fns)
             v  == Invoke(fn)
             k  == getKey(v)
         IN  IF v = NilAny
             THEN [factories |-> f, err |-> Err("ErrFactoryReturnsNil", ""),
                   examined |-> n + 1]
             ELSE IF k.panic THEN [factories |-> f, err |-> PanicErr, examined |-> n + 1]
             ELSE IF ~IsPtrKind(v)
             THEN [factories |-> f, err |-> Err("ErrFactoryDoesNotReturnPointer", k.key),
                   examined |-> n + 1]
             ELSE LET r == register(f, k.key, fn) IN
                  IF r.err # NoErr
                  THEN [factories |-> f, err |-> r.err, examined |-> n + 1]
                  ELSE RegisterFactoryLoop(r.factories, Tail(fns), n + 1)

\* Serialize handing back the payload codec's bytes as the envelope's bytes
SerializeCall_PayloadBytes(f, s, es, v) ==
    LET k == getKey(v) IN
    IF k.panic THEN Ret(PanicErr, NoEnvelope, <<>>)
    ELSE IF k.key \notin DOMAIN f
    THEN Ret(Err("ErrUnregisteredKey", k.key), NoEnvelope, <<>>)
    ELSE LET p == SerdeSerialize(s, v) IN
         IF p.err # "nil" THEN Ret(CodecError(p.err), NoEnvelope, <<"serde.Serialize">>)
         ELSE LET e == SerdeSerialize(es, Msg(k.key, p.out)) IN
              IF e.err # "nil"
              THEN Ret(CodecError(e.err), NoEnvelope,
                       <<"serde.Serialize", "envelopeSerde.Serialize">>)
              ELSE Ret(NoErr, Envelope(k.key, v, p.out),
                       <<"serde.Serialize", "envelopeSerde.Serialize">>)

\* Serialize running the payload codec before the table lookup
SerializeCall_CodecFirst(f, s, es, v) ==
    LET k == getKey(v)
        p == SerdeSerialize(s, v)
    IN  IF k.panic THEN Ret(PanicErr, NoEnvelope, <<>>)
        ELSE IF p.err # "nil" THEN Ret(CodecError(p.err), NoEnvelope, <<"serde.Serialize">>)
        ELSE IF k.key \notin DOMAIN f
        THEN Ret(Err("ErrUnregisteredKey", k.key), NoEnvelope, <<"serde.Serialize">>)
        ELSE LET e == SerdeSerialize(es, Msg(k.key, p.out)) IN
             IF e.err # "nil"
             THEN Ret(CodecError(e.err), NoEnvelope,
                      <<"serde.Serialize", "envelopeSerde.Serialize">>)
             ELSE Ret(NoErr, Envelope(k.key, v, e.out),
                      <<"serde.Serialize", "envelopeSerde.Serialize">>)

\* Serialize accepting a value only when the factory under its key makes its type
SerializeCall_SameTypeOnly(f, s, es, v) ==
    LET k == getKey(v) IN
    IF k.panic THEN Ret(PanicErr, NoEnvelope, <<>>)
    ELSE IF k.key \notin DOMAIN f \/ Invoke(f[k.key]).type # v.type
    THEN Ret(Err("ErrUnregisteredKey", k.key), NoEnvelope, <<>>)
    ELSE LET p == SerdeSerialize(s, v) IN
         IF p.err # "nil" THEN Ret(CodecError(p.err), NoEnvelope, <<"serde.Serialize">>)
         ELSE LET e == SerdeSerialize(es, Msg(k.key, p.out)) IN
              IF e.err # "nil"
              THEN Ret(CodecError(e.err), NoEnvelope,
                       <<"serde.Serialize", "envelopeSerde.Serialize">>)
              ELSE Ret(NoErr, Envelope(k.key, v, e.out),
                       <<"serde.Serialize", "envelopeSerde.Serialize">>)

SerializeCall(f, s, es, v) ==
    LET k == getKey(v) IN
    IF k.panic THEN Ret(PanicErr, NoEnvelope, <<>>)
    ELSE IF k.key \notin DOMAIN f
    THEN Ret(Err("ErrUnregisteredKey", k.key), NoEnvelope, <<>>)
    ELSE LET p == SerdeSerialize(s, v) IN
         IF p.err # "nil" THEN Ret(CodecError(p.err), NoEnvelope, <<"serde.Serialize">>)
         ELSE LET e == SerdeSerialize(es, Msg(k.key, p.out)) IN
              IF e.err # "nil"
              THEN Ret(CodecError(e.err), NoEnvelope,
                       <<"serde.Serialize", "envelopeSerde.Serialize">>)
              ELSE Ret(NoErr, Envelope(k.key, v, e.out),
                       <<"serde.Serialize", "envelopeSerde.Serialize">>)

\* Deserialize returning the factory's instance as built, not as decoded
DeserializeCall_Unpopulated(f, s, es, data) ==
    LET m == SerdeDeserialize(es, data, EmptyMsg) IN
    IF m.err # "nil"
    THEN Ret(CodecError(m.err), NoEnvelope, <<"envelopeSerde.Deserialize">>)
    ELSE IF m.out.Key = <<>>
    THEN Ret(PanicErr, NoEnvelope, <<"envelopeSerde.Deserialize">>)
    ELSE LET key == m.out.Key[1] IN
         IF key \notin DOMAIN f
         THEN Ret(Err("ErrUnregisteredKey", key), NoEnvelope,
                  <<"envelopeSerde.Deserialize">>)
         ELSE LET v == Invoke(f[key])
                  p == SerdeDeserialize(s, m.out.Payload, v)
              IN  IF p.err # "nil"
                  THEN Ret(CodecError(p.err), NoEnvelope,
                           <<"envelopeSerde.Deserialize", "fn", "serde.Deserialize">>)
                  ELSE Ret(NoErr, Envelope(key, v, data),
                           <<"envelopeSerde.Deserialize", "fn", "serde.Deserialize">>)

DeserializeCall(f, s, es, data) ==
    LET m == SerdeDeserialize(es, data, EmptyMsg) IN
    IF m.err # "nil"
    THEN Ret(CodecError(m.err), NoEnvelope, <<"envelopeSerde.Deserialize">>)
    \* key := *msg.Key
    ELSE IF m.out.Key = <<>>
    THEN Ret(PanicErr, NoEnvelope, <<"envelopeSerde.Deserialize">>)
    ELSE LET key == m.out.Key[1] IN
         IF key \notin DOMAIN f
         THEN Ret(Err("ErrUnregisteredKey", key), NoEnvelope,
                  <<"envelopeSerde.Deserialize">>)
         ELSE LET v == Invoke(f[key])
                  p == SerdeDeserialize(s, m.out.Payload, v)
              IN  IF p.err # "nil"
                  THEN Ret(CodecError(p.err), NoEnvelope,
                           <<"envelopeSerde.Deserialize", "fn", "serde.Deserialize">>)
                  ELSE Ret(NoErr, Envelope(key, p.out, data),
                           <<"envelopeSerde.Deserialize", "fn", "serde.Deserialize">>)

\* IsRegistered looking the value up under its type name, whatever key it derives
IsRegisteredCall_ByTypeName(f, v) ==
    LET k == getKey(v) IN
    IF k.panic THEN [err |-> PanicErr, exists |-> FALSE]
    ELSE [err |-> NoErr, exists |-> TypeString(v.type) \in DOMAIN f]

\* IsRegistered: a boolean, or the panic of getKey
IsRegisteredCall(f, v) ==
    LET k == getKey(v) IN
    IF k.panic THEN [err |-> PanicErr, exists |-> FALSE]
    ELSE [err |-> NoErr, exists |-> k.key \in DOMAIN f]

\* Build calling whatever the map lookup gave, without the test for a missing key
BuildCall_NoLookupCheck(f, key) ==
    IF key \notin DOMAIN f
    THEN [err |-> PanicErr, value |-> NilAny, trace |-> <<"fn">>]
    ELSE [err |-> NoErr, value |-> Invoke(f[key]), trace |-> <<"fn">>]

BuildCall(f, key) ==
    IF key \notin DOMAIN f
    THEN [err |-> Err("ErrUnregisteredKey", key), value |-> NilAny, trace |-> <<>>]
    ELSE [err |-> NoErr, value |-> Invoke(f[key]), trace |-> <<"fn">>]

-----------------------------------------------------------------------------
(* Inputs *)

\* sequences over S of length at most n
RECURSIVE SeqsUpTo(_, _)
SeqsUpTo(S, n) ==
    IF n = 0 THEN {<<>>}
    ELSE LET shorter == SeqsUpTo(S, n - 1) IN
         shorter \cup {Append(q, x) : q \in shorter, x \in S}

\* values handed to Register: zero values in value and in pointer form, and nil
RegValues ==
    { Val("Test", ""), Ptr("Test", ""), Val("KeyedTest", ""), Ptr("KeyedTest", ""),
      Ptr("PrefixedTest", ""), Val("KeyedPrefixedTest", ""),
      Val("PtrKeyedTest", ""), Ptr("PtrKeyedTest", ""), Val("fork.Test", ""), NilAny }

\* factories handed to RegisterFactory
UserFactories ==
    { UserFactory(NilAny), UserFactory(Val("Test", "")),
      UserFactory(Ptr("Test", "Unknown")), UserFactory(Ptr("KeyedTest", "Unknown")),
      UserFactory(NilPtr("Test")) }

\* every key some value derives, and one that none derives
Keys == {getKey(v).key : v \in {w \in Values : ~getKey(w).panic}} \cup {"unknown"}

\* blobs handed to Deserialize: envelopes in both encodings for every key,
\* with a well-formed and a malformed payload; an empty blob, an envelope
\* without a key in either encoding, and bytes that are no envelope
Blobs ==
    LET payloads == {JsonMarshal(Ptr("Test", "testing")), <<"junk">>} IN
    {ProtoMarshal(Msg(k, p)).out : k \in Keys, p \in payloads}
        \cup {JsonMarshal(Msg(k, p)) : k \in Keys, p \in payloads}
        \cup {<<>>, <<"2:", "junk">>, JsonMarshal(EmptyMsg), <<"junk">>}

-----------------------------------------------------------------------------
\* the value from which a registration derives the key of its element
SampleOf(op, arg) == IF op = "Register" THEN arg ELSE Invoke(arg)

\* the factory a registration hands to register for its element
FactoryOf(op, arg) == IF op = "Register" THEN NewFactory(arg.type) ELSE arg

\* the number of elements for which register returned nil in a loop with
\* result r: all the loop examined, but the last on an error
Succeeded(r) == IF r.err = NoErr THEN r.examined ELSE r.examined - 1

\* the history h after register returned nil for the first n elements of args:
\* each key with the factory of its first successful registration
RECURSIVE Remember(_, _, _, _)
Remember(h, op, args, n) ==
    IF n = 0 THEN h
    ELSE LET g == Remember(h, op, args, n - 1)
             k == getKey(SampleOf(op, args[n])).key
         IN  IF k \in DOMAIN g THEN g
             ELSE [x \in DOMAIN g \cup {k} |->
                       IF x = k THEN FactoryOf(op, args[n]) ELSE g[x]]

(* State machine *)

\* NewRegistry(opts...): an empty table, and the codecs the options leave
Init ==
    /\ factories = <<>>
    /\ \E os \in OptionLists :
           /\ opts = os
           /\ serde = NewRegistry(os).serde
           /\ envelopeSerde = NewRegistry(os).envelopeSerde
    /\ last = NoCall
    /\ running = <<>>
    /\ heap = <<>>
    /\ inserted = <<>>

Register(vs) ==
    /\ last = NoCall
    /\ LET r == RegisterLoop(factories, vs, 0) IN
       /\ factories' = r.factories
       /\ inserted' = Remember(inserted, "Register", vs, Succeeded(r))
       /\ last' = Call("Register", vs, [err |-> r.err, examined |-> r.examined], factories)
    /\ UNCHANGED <<serde, envelopeSerde, opts, running, heap>>

RegisterFactory(fns) ==
    /\ last = NoCall
    /\ LET r == RegisterFactoryLoop(factories, fns, 0) IN
       /\ factories' = r.factories
       /\ inserted' = Remember(inserted, "RegisterFactory", fns, Succeeded(r))
       /\ last' = Call("RegisterFactory", fns,
                       [err |-> r.err, examined |-> r.examined], factories)
    /\ UNCHANGED <<serde, envelopeSerde, opts, running, heap>>

Serialize(v) ==
    /\ last = NoCall
    /\ last' = Call("Serialize", v, SerializeCall(factories, serde, envelopeSerde, v),
                    factories)
    /\ UNCHANGED <<factories, serde, envelopeSerde, opts, running, heap, inserted>>

Deserialize(data) ==
    /\ last = NoCall
    /\ last' = Call("Deserialize", data,
                    DeserializeCall(factories, serde, envelopeSerde, data), factories)
    /\ UNCHANGED <<factories, serde, envelopeSerde, opts, running, heap, inserted>>

IsRegistered(v) ==
    /\ last = NoCall
    /\ last' = Call("IsRegistered", v, IsRegisteredCall(factories, v), factories)
    /\ UNCHANGED <<factories, serde, envelopeSerde, opts, running, heap, inserted>>

Build(key) ==
    /\ last = NoCall
    /\ last' = Call("Build", key, BuildCall(factories, key), factories)
    /\ UNCHANGED <<factories, serde, envelopeSerde, opts, running, heap, inserted>>

\* the caller takes the result; the registry keeps no reference to it
Return ==
    /\ last # NoCall
    /\ last' = NoCall
    /\ UNCHANGED <<factories, serde, envelopeSerde, opts, running, heap, inserted>>

\* the inputs S a caller may hand over now: none while a call is in progress
WhenIdle(S) == IF last = NoCall THEN S ELSE {}

Next ==
    \/ \E vs \in WhenIdle(SeqsUpTo(RegValues, MaxBatch)) : Register(vs)
    \/ \E fns \in WhenIdle(SeqsUpTo(UserFactories, MaxBatch)) : RegisterFactory(fns)
    \/ \E v \in WhenIdle(Values) : Serialize(v)
    \/ \E data \in WhenIdle(Blobs) : Deserialize(data)
    \/ \E v \in WhenIdle(Values) : IsRegistered(v)
    \/ \E key \in WhenIdle(Keys) : Build(key)
    \/ Return

Spec == Init /\ [][Next]_vars

-----------------------------------------------------------------------------
(* Concurrent readers: once registration has finished, several callers run  *)
(* Serialize, Deserialize, IsRegistered and Build at the same time.  Each   *)
(* call is a sequence of steps; the steps of different calls interleave.    *)

\* number of callers running read operations at the same time
NumCallers == 2

Callers == 1..NumCallers

\* the zero value of func() any
NilFactory == [kind |-> "nil", type |-> "none", ret |-> NilAny]

\* a map index that finds no key: register without its existence test
Lookup_NeverFinds(f, key) == [exists |-> FALSE, fn |-> NilFactory, factories |-> f]

\* a map index that stores the zero value under a key it does not find
Lookup_InsertsOnMiss(f, key) ==
    IF key \in DOMAIN f
    THEN [exists |-> TRUE, fn |-> f[key], factories |-> f]
    ELSE [exists |-> FALSE, fn |-> NilFactory,
          factories |-> [k \in DOMAIN f \cup {key} |-> IF k = key THEN NilFactory ELSE f[k]]]

\* fn, exists := r.factories[key]: a read of the map, which is left as it is
Lookup(f, key) ==
    IF key \in DOMAIN f
    THEN [exists |-> TRUE, fn |-> f[key], factories |-> f]
    ELSE [exists |-> FALSE, fn |-> NilFactory, factories |-> f]

\* a caller between calls
IdleCall ==
    [op |-> "none", arg |-> <<>>, pc |-> "idle", pre |-> <<>>,
     key |-> "", fn |-> NilFactory, bytes |-> <<>>, v |-> NilAny, ret |-> <<>>]

\* the first step of each operation
FirstStep(op) == IF op = "Deserialize" THEN "envelope" ELSE "lookup"

\* the call has returned ret
Done(c, ret) == [c EXCEPT !.pc = "done", !.ret = ret]

\* the next step of Serialize
SerializeStep(c, f, s, es) ==
    CASE c.pc = "lookup" ->
             LET k == getKey(c.arg) IN
             IF k.panic
             THEN [call |-> Done(c, Ret(PanicErr, NoEnvelope, <<>>)), factories |-> f]
             ELSE LET l == Lookup(f, k.key) IN
                  [call |-> IF l.exists THEN [c EXCEPT !.pc = "serde", !.key = k.key]
                            ELSE Done(c, Ret(Err("ErrUnregisteredKey", k.key),
                                             NoEnvelope, <<>>)),
                   factories |-> l.factories]
      [] c.pc = "serde" ->
             LET p == SerdeSerialize(s, c.arg) IN
             [call |-> IF p.err # "nil"
                       THEN Done(c, Ret(CodecError(p.err), NoEnvelope, <<"serde.Serialize">>))
                       ELSE [c EXCEPT !.pc = "envelope", !.bytes = p.out],
              factories |-> f]
      [] c.pc = "envelope" ->
             LET e == SerdeSerialize(es, Msg(c.key, c.bytes)) IN
             [call |-> Done(c, Ret(IF e.err # "nil" THEN CodecError(e.err) ELSE NoErr,
                                   IF e.err # "nil" THEN NoEnvelope
                                   ELSE Envelope(c.key, c.arg, e.out),
                                   <<"serde.Serialize", "envelopeSerde.Serialize">>)),
              factories |-> f]

\* the next step of Deserialize
DeserializeStep(c, f, s, es) ==
    CASE c.pc = "envelope" ->
             LET m == SerdeDeserialize(es, c.arg, EmptyMsg) IN
             [call |-> IF m.err # "nil"
                       THEN Done(c, Ret(CodecError(m.err), NoEnvelope,
                                        <<"envelopeSerde.Deserialize">>))
                       ELSE IF m.out.Key = <<>>
                       THEN Done(c, Ret(PanicErr, NoEnvelope, <<"envelopeSerde.Deserialize">>))
                       ELSE [c EXCEPT !.pc = "lookup", !.key = m.out.Key[1],
                                      !.bytes = m.out.Payload],
              factories |-> f]
      [] c.pc = "lookup" ->
             LET l == Lookup(f, c.key) IN
             [call |-> IF l.exists THEN [c EXCEPT !.pc = "fn", !.fn = l.fn]
                       ELSE Done(c, Ret(Err("ErrUnregisteredKey", c.key), NoEnvelope,
                                        <<"envelopeSerde.Deserialize">>)),
              factories |-> l.factories]
      [] c.pc = "fn" ->
             [call |-> [c EXCEPT !.pc = "serde", !.v = Invoke(c.fn)], factories |-> f]
      [] c.pc = "serde" ->
             LET p == SerdeDeserialize(s, c.bytes, c.v) IN
             [call |-> Done(c, Ret(IF p.err # "nil" THEN CodecError(p.err) ELSE NoErr,
                                   IF p.err # "nil" THEN NoEnvelope
                                   ELSE Envelope(c.key, p.out, c.arg),
                                   <<"envelopeSerde.Deserialize", "fn", "serde.Deserialize">>)),
              factories |-> f]

\* the one step of IsRegistered
IsRegisteredStep(c, f) ==
    LET k == getKey(c.arg) IN
    IF k.panic
    THEN [call |-> Done(c, [err |-> PanicErr, exists |-> FALSE]), factories |-> f]
    ELSE LET l == Lookup(f, k.key) IN
         [call |-> Done(c, [err |-> NoErr, exists |-> l.exists]), factories |-> l.factories]

\* the next step of Build
BuildStep(c, f) ==
    CASE c.pc = "lookup" ->
             LET l == Lookup(f, c.arg) IN
             [call |-> IF l.exists THEN [c EXCEPT !.pc = "fn", !.fn = l.fn]
                       ELSE Done(c, [err |-> Err("ErrUnregisteredKey", c.arg),
                                     value |-> NilAny, trace |-> <<>>]),
              factories |-> l.factories]
      [] c.pc = "fn" ->
             [call |-> Done(c, [err |-> NoErr, value |-> Invoke(c.fn), trace |-> <<"fn">>]),
              factories |-> f]

\* the next step of call c on table f with codecs s, es
ReadStep(c, f, s, es) ==
    CASE c.op = "Serialize" -> SerializeStep(c, f, s, es)
      [] c.op = "Deserialize" -> DeserializeStep(c, f, s, es)
      [] c.op = "IsRegistered" -> IsRegisteredStep(c, f)
      [] c.op = "Build" -> BuildStep(c, f)

\* the types registered before the readers start
ReaderRegValues == {Val("Test", ""), Val("KeyedTest", "")}

\* the calls the readers make
ReaderCalls ==
    { <<"Serialize", Val("Test", "testing")>>,
      <<"Deserialize", ProtoMarshal(Msg("test", JsonMarshal(Ptr("Test", "testing")))).out>>,
      <<"Deserialize", <<>> >>,
      <<"IsRegistered", Ptr("KeyedTest", "")>>,
      <<"Build", "envelope_test.Test">>,
      <<"Build", "unknown">> }

\* a registry after NewRegistry(opts...) and one Register call, no call running
InitReaders ==
    /\ \E vs \in SeqsUpTo(ReaderRegValues, MaxBatch) :
           LET r == RegisterLoop(<<>>, vs, 0) IN
           /\ factories = r.factories
           /\ inserted = Remember(<<>>, "Register", vs, Succeeded(r))
    /\ \E os \in OptionLists :
           /\ opts = os
           /\ serde = NewRegistry(os).serde
           /\ envelopeSerde = NewRegistry(os).envelopeSerde
    /\ last = NoCall
    /\ running = [c \in Callers |-> IdleCall]
    /\ heap = <<>>

\* caller c starts a call
Begin(c, op, arg) ==
    /\ running[c].pc = "idle"
    /\ running' = [running EXCEPT ![c] =
                       [IdleCall EXCEPT !.op = op, !.arg = arg, !.pc = FirstStep(op),
                                        !.pre = factories]]
    /\ UNCHANGED <<factories, serde, envelopeSerde, opts, last, heap, inserted>>

\* the call of caller c takes its next step
Step(c) ==
    /\ running[c].pc \notin {"idle", "done"}
    /\ LET r == ReadStep(running[c], factories, serde, envelopeSerde) IN
       /\ running' = [running EXCEPT ![c] = r.call]
       /\ factories' = r.factories
    /\ UNCHANGED <<serde, envelopeSerde, opts, last, heap, inserted>>

\* caller c takes the result of its call
Finish(c) ==
    /\ running[c].pc = "done"
    /\ running' = [running EXCEPT ![c] = IdleCall]
    /\ UNCHANGED <<factories, serde, envelopeSerde, opts, last, heap, inserted>>

NextReaders ==
    \/ \E c \in Callers, call \in ReaderCalls : Begin(c, call[1], call[2])
    \/ \E c \in Callers : Step(c)
    \/ \E c \in Callers : Finish(c)

SpecReaders == InitReaders /\ [][NextReaders]_vars

-----------------------------------------------------------------------------
(* Instances: what the factories hand out lives on a heap, so that two      *)
(* results can be told apart and a caller can write to the one it was given. *)

\* most objects the factories allocate in one run
MaxObjects == 3

\* the zero value of struct type t, as an object on the heap
Zero(t) == [type |-> t, field |-> ""]

\* a factory made once at registration and handing out the same instance since
Alloc_Shared(h, fn) ==
    IF \E a \in DOMAIN h : h[a].type = fn.type
    THEN [heap |-> h, ref |-> CHOOSE a \in DOMAIN h : h[a].type = fn.type]
    ELSE [heap |-> Append(h, Zero(fn.type)), ref |-> Len(h) + 1]

\* fn() of the closure Register stores: reflect.New(t) allocates a zero T and
\* returns the pointer to it
Alloc(h, fn) == [heap |-> Append(h, Zero(fn.type)), ref |-> Len(h) + 1]

\* the nil reference returned beside an error
NoRef == 0

\* Build on heap h: the error, the pointer returned, the heap afterwards
BuildOnHeap(f, h, key) ==
    LET l == Lookup(f, key) IN
    IF ~l.exists
    THEN [err |-> Err("ErrUnregisteredKey", key), ref |-> NoRef, heap |-> h]
    ELSE LET a == Alloc(h, l.fn) IN [err |-> NoErr, ref |-> a.ref, heap |-> a.heap]

\* Deserialize on heap h: the payload codec writes through the pointer fn() gave
DeserializeOnHeap(f, s, es, h, data) ==
    LET m == SerdeDeserialize(es, data, EmptyMsg) IN
    IF m.err # "nil" THEN [err |-> CodecError(m.err), ref |-> NoRef, heap |-> h]
    ELSE IF m.out.Key = <<>> THEN [err |-> PanicErr, ref |-> NoRef, heap |-> h]
    ELSE LET l == Lookup(f, m.out.Key[1]) IN
         IF ~l.exists
         THEN [err |-> Err("ErrUnregisteredKey", m.out.Key[1]), ref |-> NoRef, heap |-> h]
         ELSE LET a == Alloc(h, l.fn)
                  o == a.heap[a.ref]
                  p == SerdeDeserialize(s, m.out.Payload, Ptr(o.type, o.field))
              IN  IF p.err # "nil"
                  THEN [err |-> CodecError(p.err), ref |-> NoRef, heap |-> a.heap]
                  ELSE [err |-> NoErr, ref |-> a.ref,
                        heap |-> [a.heap EXCEPT ![a.ref].field = p.out.field]]

\* keys handed to Build, and blobs handed to Deserialize, in this specification
InstanceKeys == {"envelope_test.Test", "test", "unknown"}

InstanceBlobs ==
    { ProtoMarshal(Msg(k, JsonMarshal(Ptr("Test", "testing")))).out :
          k \in {"envelope_test.Test", "test"} }
        \cup {JsonMarshal(Msg("test", JsonMarshal(Ptr("Test", "testing"))))}

\* what a caller writes into the field of an instance it was given
Written == {"mutated"}

\* a registry after NewRegistry(opts...) and one Register call, nothing built
InitInstances ==
    /\ \E vs \in SeqsUpTo(ReaderRegValues, MaxBatch) :
           LET r == RegisterLoop(<<>>, vs, 0) IN
           /\ factories = r.factories
           /\ inserted = Remember(<<>>, "Register", vs, Succeeded(r))
    /\ \E os \in OptionLists :
           /\ opts = os
           /\ serde = NewRegistry(os).serde
           /\ envelopeSerde = NewRegistry(os).envelopeSerde
    /\ last = NoCall
    /\ running = <<>>
    /\ heap = <<>>

BuildInstance(key) ==
    /\ last = NoCall
    /\ Len(heap) < MaxObjects
    /\ LET r == BuildOnHeap(factories, heap, key) IN
       /\ heap' = r.heap
       /\ last' = Call("Build", key, [err |-> r.err, ref |-> r.ref], factories)
    /\ UNCHANGED <<factories, serde, envelopeSerde, opts, running, inserted>>

DeserializeInstance(data) ==
    /\ last = NoCall
    /\ Len(heap) < MaxObjects
    /\ LET r == DeserializeOnHeap(factories, serde, envelopeSerde, heap, data) IN
       /\ heap' = r.heap
       /\ last' = Call("Deserialize", data, [err |-> r.err, ref |-> r.ref], factories)
    /\ UNCHANGED <<factories, serde, envelopeSerde, opts, running, inserted>>

\* the caller writes x into the instance at a, which an earlier call gave it
Mutate(a, x) ==
    /\ last = NoCall
    /\ a \in DOMAIN heap
    /\ heap' = [heap EXCEPT ![a].field = x]
    /\ UNCHANGED <<factories, serde, envelopeSerde, opts, last, running, inserted>>

NextInstances ==
    \/ \E key \in InstanceKeys : BuildInstance(key)
    \/ \E data \in InstanceBlobs : DeserializeInstance(data)
    \/ \E a \in 1..MaxObjects, x \in Written : Mutate(a, x)
    \/ Return

SpecInstances == InitInstances /\ [][NextInstances]_vars

-----------------------------------------------------------------------------
(* Concurrent registration: several callers run Register or RegisterFactory *)
(* with one element at the same time.  register has no lock: its existence  *)
(* test and its insertion are separate steps, and other calls run between.  *)

\* the calls the registering callers make: three that derive the key of Test
\* with three different factories, and one that derives another key
WriterCalls ==
    { <<"Register", Val("Test", "")>>,
      <<"Register", Val("fork.Test", "")>>,
      <<"RegisterFactory", UserFactory(Ptr("Test", "Unknown"))>>,
      <<"Register", Val("KeyedTest", "")>> }

\* register's existence test: if _, exists := r.factories[key]; exists
RegisterCheck(c, f) ==
    LET l == Lookup(f, c.key) IN
    IF l.exists THEN Done(c, [err |-> Err("ErrReregisteredKey", c.key)])
    ELSE [c EXCEPT !.pc = "insert"]

\* register's insertion: r.factories[key] = fn; return nil
RegisterInsert(c, f) ==
    [call |-> Done(c, [err |-> NoErr]),
     factories |-> [k \in DOMAIN f \cup {c.key} |-> IF k = c.key THEN c.fn ELSE f[k]]]

\* the next step of c reads or writes the map while another call is about to
\* write it, or writes it while another call is about to read it: a data race
Races(c) ==
    \E d \in Callers \ {c} :
        \/ running[d].pc = "insert" /\ running[c].pc \in {"check", "insert"}
        \/ running[d].pc = "check" /\ running[c].pc = "insert"

\* the Go runtime found the map written concurrently: the process is gone
Aborted == \E c \in Callers : running[c].pc = "aborted"

\* an empty registry, no call running
InitWriters ==
    /\ factories = <<>>
    /\ \E os \in OptionLists :
           /\ opts = os
           /\ serde = NewRegistry(os).serde
           /\ envelopeSerde = NewRegistry(os).envelopeSerde
    /\ last = NoCall
    /\ running = [c \in Callers |-> IdleCall]
    /\ heap = <<>>
    /\ inserted = <<>>

\* caller c calls Register(v) or RegisterFactory(fn): the key is derived and
\* the factory made before register is entered
BeginRegister(c, op, arg) ==
    /\ ~Aborted
    /\ running[c].pc = "idle"
    /\ running' = [running EXCEPT ![c] =
                       [IdleCall EXCEPT !.op = op, !.arg = arg, !.pc = "check",
                                        !.pre = factories,
                                        !.key = getKey(SampleOf(op, arg)).key,
                                        !.fn = FactoryOf(op, arg)]]
    /\ UNCHANGED <<factories, serde, envelopeSerde, opts, last, heap, inserted>>

\* the call of caller c makes register's existence test
CheckStep(c) ==
    /\ ~Aborted
    /\ running[c].pc = "check"
    /\ running' = [running EXCEPT ![c] = RegisterCheck(running[c], factories)]
    /\ UNCHANGED <<factories, serde, envelopeSerde, opts, last, heap, inserted>>

\* the call of caller c inserts its factory and returns
InsertStep(c) ==
    /\ ~Aborted
    /\ running[c].pc = "insert"
    /\ LET r == RegisterInsert(running[c], factories) IN
       /\ running' = [running EXCEPT ![c] = r.call]
       /\ factories' = r.factories
       /\ inserted' = Remember(inserted, running[c].op, <<running[c].arg>>, 1)
    /\ UNCHANGED <<serde, envelopeSerde, opts, last, heap>>

\* a racing access makes the runtime abort the process: no call returns
AbortStep(c) ==
    /\ ~Aborted
    /\ Races(c)
    /\ running' = [d \in Callers |->
                       IF running[d].pc \in {"check", "insert"}
                       THEN [running[d] EXCEPT !.pc = "aborted"] ELSE running[d]]
    /\ UNCHANGED <<factories, serde, envelopeSerde, opts, last, heap, inserted>>

NextWriters ==
    \/ \E c \in Callers, call \in WriterCalls : BeginRegister(c, call[1], call[2])
    \/ \E c \in Callers : CheckStep(c)
    \/ \E c \in Callers : InsertStep(c)
    \/ \E c \in Callers : AbortStep(c)

SpecWriters == InitWriters /\ [][NextWriters]_vars

-----------------------------------------------------------------------------
(* Properties *)

\* v is a non-nil value: T{...} or &T{...}
NonNil(v) == v.form \in {"val", "ptr"}

\* the same struct in the other form: &T{...} for T{...} and back
OtherForm(v) == IF v.form = "val" THEN Ptr(v.type, v.field) ELSE Val(v.type, v.field)

\* some successful registration left a factory for type t in the table f
TypeRegistered(f, t) == \E k \in DOMAIN f : f[k].type = t

\* the call handed on the error of a failing codec (errors.New("broken"))
CodecFailed(r) == r.err = Err("broken", "")

\* Deserialize(Serialize(v).Bytes()) under table f and the configured codecs
RoundTrip(f, v) ==
    LET sr == SerializeCall(f, serde, envelopeSerde, v)
        dr == DeserializeCall(f, serde, envelopeSerde, sr.env.data)
    IN  [ser |-> sr, de |-> dr]

\* the key Serialize derived, shown by its result: Key() of the envelope, or
\* the key ErrUnregisteredKey carries
KeyShown(r) == IF r.err = NoErr THEN r.env.key ELSE r.err.key

ShowsKey(r) == r.err.kind \in {"nil", "ErrUnregisteredKey"}

\* s starts with p
StartsWith(s, p) == Len(s) >= Len(p) /\ SubSeq(s, 1, Len(p)) = p

\* C1 as stated: for every non-nil value whose type has been registered,
\* Deserialize(Serialize(v).Bytes()) succeeds under the default codecs, and its
\* payload is v again, in the form (pointer or value) in which v was passed,
\* under the key Serialize gave.  Stated of the table between calls.
C1_RoundTripSameForm ==
    (last = NoCall /\ serde = "JsonSerde" /\ envelopeSerde = "ProtoSerde") =>
        \A v \in Values :
            (NonNil(v) /\ TypeRegistered(factories, v.type)) =>
                LET rt == RoundTrip(factories, v) IN
                /\ rt.ser.err = NoErr
                /\ rt.de.err = NoErr
                /\ rt.de.env.payload = v
                /\ rt.de.env.key = rt.ser.env.key

\* the derived key of v is in f, under a factory yielding a non-nil pointer
\* to v's type
KeyRegisteredForType(f, v) ==
    /\ ~getKey(v).panic
    /\ getKey(v).key \in DOMAIN f
    /\ Invoke(f[getKey(v).key]) \in {Ptr(v.type, x) : x \in Fields \cup {"Unknown"}}

\* C1 amended: for every non-nil value v of type T whose derived key is in the
\* table under a factory yielding a non-nil *T, the round trip either hands on
\* a codec's error or succeeds with the key Serialize gave and a payload that
\* is a *T with v's field content, whether v was passed as T or as *T.  Stated
\* of the table between calls.
C1_RoundTripPointerForm ==
    \A v \in Values :
        (last = NoCall /\ NonNil(v) /\ KeyRegisteredForType(factories, v)) =>
            LET rt == RoundTrip(factories, v) IN
            \/ CodecFailed(rt.ser)
            \/ rt.ser.err = NoErr /\ CodecFailed(rt.de)
            \/ /\ rt.ser.err = NoErr
               /\ rt.de.err = NoErr
               /\ rt.de.env.payload = Ptr(v.type, v.field)
               /\ rt.de.env.key = rt.ser.env.key
               /\ rt.de.env.key = getKey(v).key

\* C1 witness: Deserialize has returned the envelope of a value passed in
\* value form with a non-zero field, rebuilt in pointer form.
C1_Witness ==
    /\ last.op = "Deserialize"
    /\ last.ret.err = NoErr
    /\ last.ret.env.payload = Ptr("Test", "testing")
    /\ KeyRegisteredForType(last.pre, Val("Test", "testing"))
    /\ last.arg = SerializeCall(last.pre, serde, envelopeSerde, Val("Test", "testing")).env.data
    /\ last.pre["envelope_test.Test"] = NewFactory("Test")

\* C2 as stated: once Register has stored a factory for a type, IsRegistered
\* of a non-nil value of that type is true in either form (the key of *T and
\* of T are the same).
C2_RegisteredInEitherForm ==
    (/\ last.op = "IsRegistered"
     /\ NonNil(last.arg)
     /\ \E k \in DOMAIN last.pre : last.pre[k] = NewFactory(last.arg.type))
        => last.ret.exists

C4_PrefixComposition ==
    (/\ last.op = "Serialize"
     /\ ShowsKey(last.ret)
     /\ ~HasMethod(last.arg, KeyRecv(last.arg.type)))
        => KeyShown(last.ret) =
               IF HasMethod(last.arg, PrefixRecv(last.arg.type))
               THEN EnvelopeKeyPrefix(last.arg.type) \o TypeString(last.arg.type)
               ELSE TypeString(last.arg.type)

\* C4 witness: a registered pointer to a prefixed type was serialized.
C4_Witness ==
    /\ last.op = "Serialize"
    /\ last.ret.err = NoErr
    /\ last.arg = Ptr("PrefixedTest", "testing")
    /\ last.ret.env.key = "prefix.envelope_test.PrefixedTest"

\* C5 as stated: for every value that exposes EnvelopeKeyPrefix, the key
\* Serialize derives starts with that prefix, also when it has an EnvelopeKey.
C5_PrefixOnEveryKey ==
    (/\ last.op = "Serialize"
     /\ ShowsKey(last.ret)
     /\ HasMethod(last.arg, PrefixRecv(last.arg.type)))
        => StartsWith(KeyShown(last.ret), EnvelopeKeyPrefix(last.arg.type))

\* the call is a batch registration
IsBatch(c) == c.op \in {"Register", "RegisterFactory"}

\* the value from which element i of the batch derives its key: vs[i] itself,
\* or the sample fns[i]() returns
Sample(c, i) == IF c.op = "Register" THEN c.arg[i] ELSE Invoke(c.arg[i])

\* the factory element i stores: Register's closure, or fns[i] itself
Stored(c, i) == IF c.op = "Register" THEN NewFactory(c.arg[i].type) ELSE c.arg[i]

\* element i gets as far as deriving a key
DerivesKey(c, i) ==
    /\ c.op = "RegisterFactory" => Sample(c, i) # NilAny
    /\ ~getKey(Sample(c, i)).panic

KeyOf(c, i) == getKey(Sample(c, i)).key

\* the key of element i is in the table when the loop comes to it
KeyPresent(c, i) ==
    \/ KeyOf(c, i) \in DOMAIN c.pre
    \/ \E j \in 1..(i - 1) : KeyOf(c, j) = KeyOf(c, i)

\* element i can be registered when the loop comes to it
Registrable(c, i) ==
    /\ DerivesKey(c, i)
    /\ c.op = "RegisterFactory" => Sample(c, i).form \in {"ptr", "nilptr"}
    /\ ~KeyPresent(c, i)

\* the loop comes to element i: every element before it has been registered
Reaches(c, i) == i \in 1..Len(c.arg) /\ \A j \in 1..(i - 1) : Registrable(c, j)

\* the table after the call is the table before it and elements 1..n, each
\* under its own key
HoldsFirst(c, n) ==
    /\ DOMAIN factories = DOMAIN c.pre \cup {KeyOf(c, j) : j \in 1..n}
    /\ \A k \in DOMAIN c.pre : factories[k] = c.pre[k]
    /\ \A j \in 1..n : factories[KeyOf(c, j)] = Stored(c, j)

\* C6 as stated: a Register or RegisterFactory element that derives a key
\* already in the table makes its call return ErrReregisteredKey for that
\* key, and no call replaces or removes the factory a key was first given.
C6_DuplicateIsReregistered ==
    IsBatch(last) =>
        /\ \A i \in 1..Len(last.arg) :
               (Reaches(last, i) /\ DerivesKey(last, i) /\ KeyPresent(last, i)) =>
                   last.ret.err = Err("ErrReregisteredKey", KeyOf(last, i))
        /\ \A k \in DOMAIN last.pre : k \in DOMAIN factories /\ factories[k] = last.pre[k]

\* C6 amended: a Register element, or a RegisterFactory element whose sample
\* is a pointer, that derives a key already in the table makes its call return
\* ErrReregisteredKey for that key; a RegisterFactory element whose sample is
\* no pointer returns ErrFactoryDoesNotReturnPointer instead.  Either way the
\* table is left as that element found it, and no call replaces or removes the
\* factory a key was first given.
C6_Uniqueness ==
    IsBatch(last) =>
        /\ \A i \in 1..Len(last.arg) :
               (Reaches(last, i) /\ DerivesKey(last, i) /\ KeyPresent(last, i)) =>
                   /\ last.ret.err =
                          IF last.op = "RegisterFactory" /\ Sample(last, i).form = "val"
                          THEN Err("ErrFactoryDoesNotReturnPointer", KeyOf(last, i))
                          ELSE Err("ErrReregisteredKey", KeyOf(last, i))
                   /\ HoldsFirst(last, i - 1)
        /\ \A k \in DOMAIN last.pre : k \in DOMAIN factories /\ factories[k] = last.pre[k]

\* C6 witness: a second type with the override of a registered one was
\* refused, and the key still has the first type's factory.
C6_Witness ==
    /\ last.op = "Register"
    /\ last.arg = <<Val("KeyedPrefixedTest", "")>>
    /\ last.ret.err = Err("ErrReregisteredKey", "test")
    /\ last.pre = factories
    /\ factories["test"] = NewFactory("KeyedTest")

\* C7: a batch that fails does so at its first element i that cannot be
\* registered, returns that element's error, has started on no later element,
\* and leaves the table as it was plus elements 1..i-1.
C7_BatchStopsAtFirstError ==
    IsBatch(last) =>
        /\ \A i \in 1..Len(last.arg) :
               (Reaches(last, i) /\ ~Registrable(last, i)) =>
                   /\ last.ret.examined = i
                   /\ HoldsFirst(last, i - 1)
                   /\ last.ret.err =
                          IF last.op = "RegisterFactory" /\ Sample(last, i) = NilAny
                              THEN Err("ErrFactoryReturnsNil", "")
                          ELSE IF getKey(Sample(last, i)).panic THEN PanicErr
                          ELSE IF last.op = "RegisterFactory" /\ Sample(last, i).form = "val"
                              THEN Err("ErrFactoryDoesNotReturnPointer", KeyOf(last, i))
                          ELSE Err("ErrReregisteredKey", KeyOf(last, i))
        /\ last.ret.err # NoErr =>
               \E i \in 1..Len(last.arg) : Reaches(last, i) /\ ~Registrable(last, i)

\* C7 witness: the second element of a batch failed, the first stays
\* registered.
C7_Witness ==
    /\ last.op = "Register"
    /\ last.arg = <<Ptr("Test", ""), Val("Test", "")>>
    /\ last.ret.err = Err("ErrReregisteredKey", "envelope_test.Test")
    /\ last.pre = <<>>
    /\ DOMAIN factories = {"envelope_test.Test"}

\* C8: when RegisterFactory comes to a factory that returns nil, it returns
\* ErrFactoryReturnsNil("") and that factory adds no entry.
C8_NilFactory ==
    last.op = "RegisterFactory" =>
        \A i \in 1..Len(last.arg) :
            (Reaches(last, i) /\ Sample(last, i) = NilAny) =>
                /\ last.ret.err = Err("ErrFactoryReturnsNil", "")
                /\ HoldsFirst(last, i - 1)
                /\ i = 1 => factories = last.pre

\* C8 witness: a lone nil-returning factory was refused on a non-empty table.
C8_Witness ==
    /\ last.op = "RegisterFactory"
    /\ last.arg = <<UserFactory(NilAny)>>
    /\ last.ret.err = Err("ErrFactoryReturnsNil", "")
    /\ factories = last.pre
    /\ factories # <<>>

\* C9: when RegisterFactory comes to a factory whose sample is not a pointer,
\* it returns ErrFactoryDoesNotReturnPointer for the sample's key and that
\* factory adds no entry: IsRegistered of the sample is what it was.
C9_NonPointerFactory ==
    last.op = "RegisterFactory" =>
        \A i \in 1..Len(last.arg) :
            (Reaches(last, i) /\ Sample(last, i).form = "val") =>
                /\ last.ret.err = Err("ErrFactoryDoesNotReturnPointer", KeyOf(last, i))
                /\ HoldsFirst(last, i - 1)
                /\ i = 1 =>
                       /\ factories = last.pre
                       /\ IsRegisteredCall(factories, Sample(last, i))
                              = IsRegisteredCall(last.pre, Sample(last, i))

\* C9 witness: a lone factory returning Test{} was refused while Test is not
\* registered.
C9_Witness ==
    /\ last.op = "RegisterFactory"
    /\ last.arg = <<UserFactory(Val("Test", ""))>>
    /\ last.ret.err = Err("ErrFactoryDoesNotReturnPointer", "envelope_test.Test")
    /\ "envelope_test.Test" \notin DOMAIN factories

\* C10: Serialize of a value whose derived key is not in the table returns
\* ErrUnregisteredKey carrying that key, and no envelope, without invoking a
\* codec, whatever the codecs are.
C10_UnregisteredBeforeCodecs ==
    (/\ last.op = "Serialize"
     /\ ~getKey(last.arg).panic
     /\ getKey(last.arg).key \notin DOMAIN last.pre)
        => /\ last.ret.err = Err("ErrUnregisteredKey", getKey(last.arg).key)
           /\ last.ret.env = NoEnvelope
           /\ last.ret.trace = <<>>

\* C10 witness: an unregistered value was refused by a registry whose payload
\* codec fails on every Serialize.
C10_Witness ==
    /\ last.op = "Serialize"
    /\ serde = "brokenSerializer"
    /\ last.arg = Ptr("Test", "testing")
    /\ last.ret.err = Err("ErrUnregisteredKey", "envelope_test.Test")
    /\ last.pre # <<>>

\* the envelope codec's decoding of the blob handed to Deserialize
Decoded(c) == SerdeDeserialize(envelopeSerde, c.arg, EmptyMsg)

\* the envelope codec decoded the blob into an envelope that has a key
DecodesKey(c) == Decoded(c).err = "nil" /\ Decoded(c).out.Key # <<>>

DecodedKey(c) == Decoded(c).out.Key[1]

\* C11: Build(key), and Deserialize of a blob whose decoded envelope key is
\* key, return ErrUnregisteredKey for key when key is not in the table,
\* having invoked no factory and not the payload codec; when key is in the
\* table Build succeeds with what that key's factory returns.
C11_UnregisteredKeyLookup ==
    /\ last.op = "Build" =>
           IF last.arg \notin DOMAIN last.pre
           THEN /\ last.ret.err = Err("ErrUnregisteredKey", last.arg)
                /\ last.ret.value = NilAny
                /\ last.ret.trace = <<>>
           ELSE /\ last.ret.err = NoErr
                /\ last.ret.value = Invoke(last.pre[last.arg])
                /\ last.ret.trace = <<"fn">>
    /\ (/\ last.op = "Deserialize"
        /\ DecodesKey(last)
        /\ DecodedKey(last) \notin DOMAIN last.pre)
           => /\ last.ret.err = Err("ErrUnregisteredKey", DecodedKey(last))
              /\ last.ret.env = NoEnvelope
              /\ \A i \in 1..Len(last.ret.trace) :
                     last.ret.trace[i] \notin {"fn", "serde.Deserialize"}

\* C11 witness: Build of a key that is not in a non-empty table was refused.
C11_Witness ==
    /\ last.op = "Build"
    /\ last.arg = "unknown"
    /\ last.ret.err = Err("ErrUnregisteredKey", "unknown")
    /\ last.pre # <<>>

\* the codec returned an error (it did not panic)
IsCodecErr(r) == r.err \notin {"nil", "panic"}

\* the call came to run the payload codec, and the payload codec failed
PayloadCodecFails(c) ==
    \/ /\ c.op = "Serialize"
       /\ ~getKey(c.arg).panic
       /\ getKey(c.arg).key \in DOMAIN c.pre
       /\ IsCodecErr(SerdeSerialize(serde, c.arg))
    \/ /\ c.op = "Deserialize"
       /\ DecodesKey(c)
       /\ DecodedKey(c) \in DOMAIN c.pre
       /\ IsCodecErr(SerdeDeserialize(serde, Decoded(c).out.Payload,
                                      Invoke(c.pre[DecodedKey(c)])))

\* the call came to run the envelope codec, and the envelope codec failed
EnvelopeCodecFails(c) ==
    \/ /\ c.op = "Serialize"
       /\ ~getKey(c.arg).panic
       /\ getKey(c.arg).key \in DOMAIN c.pre
       /\ SerdeSerialize(serde, c.arg).err = "nil"
       /\ IsCodecErr(SerdeSerialize(envelopeSerde,
                                    Msg(getKey(c.arg).key, SerdeSerialize(serde, c.arg).out)))
    \/ /\ c.op = "Deserialize"
       /\ IsCodecErr(Decoded(c))

\* C12 as stated: a failure of the payload codec in Serialize or Deserialize
\* reaches the caller as an error of kind PayloadCodecError, a failure of the
\* envelope codec as one of kind EnvelopeCodecError.
C12_TypedCodecErrors ==
    /\ PayloadCodecFails(last) => last.ret.err.kind = "PayloadCodecError"
    /\ EnvelopeCodecFails(last) => last.ret.err.kind = "EnvelopeCodecError"

\* the zero value of v's type in the form in which v was passed
ZeroInForm(v) == [form |-> v.form, type |-> v.type, field |-> ""]

\* C13 as stated: after a successful Register(vs), Build of the key of each
\* element returns a new zero value of the element's type in the element's own
\* form: a T after Register(T{}), a *T after Register(&T{}).
C13_FactoryPreservesForm ==
    (last.op = "Register" /\ last.ret.err = NoErr) =>
        \A i \in 1..Len(last.arg) :
            LET b == BuildCall(factories, KeyOf(last, i)) IN
            b.err = NoErr /\ b.value = ZeroInForm(last.arg[i])

\* C13 amended: after a successful Register(vs), Build of the key of each
\* element returns a non-nil pointer to a new zero value of the element's
\* pointer-stripped type: a *T after Register(T{}) and after Register(&T{}).
C13_FactoryYieldsPointer ==
    (last.op = "Register" /\ last.ret.err = NoErr) =>
        \A i \in 1..Len(last.arg) :
            LET b == BuildCall(factories, KeyOf(last, i)) IN
            b.err = NoErr /\ b.value = Ptr(last.arg[i].type, "")

\* C13 witness: after Register(Test{}) the key of Test builds a *Test.
C13_Witness ==
    /\ last.op = "Register"
    /\ last.arg = <<Val("Test", "")>>
    /\ last.ret.err = NoErr
    /\ BuildCall(factories, "envelope_test.Test").value = Ptr("Test", "")

\* C14: the table is append-only.  Over every step of every operation,
\* successful or failing, each key in the table stays in the table with the
\* factory it has.
C14_AppendOnly ==
    [][\A k \in DOMAIN factories :
           k \in DOMAIN factories' /\ factories'[k] = factories[k]]_vars

\* C14 witness: RegisterFactory added a key to a table that held others, and
\* every key the table held has its factory still.
C14_Witness ==
    /\ last.op = "RegisterFactory"
    /\ last.ret.err = NoErr
    /\ last.pre # <<>>
    /\ DOMAIN last.pre # DOMAIN factories
    /\ \A k \in DOMAIN last.pre : k \in DOMAIN factories /\ factories[k] = last.pre[k]

\* C15 as stated: key derivation is total.  For every value handed over as
\* `any`, the untyped nil and nil pointers included, IsRegistered returns a
\* boolean and does not abort, and Register of such a value either stores an
\* entry or returns an error.
C15_KeyDerivationTotal ==
    /\ last.op = "IsRegistered" => last.ret.err = NoErr
    /\ last.op = "Register" => last.ret.err # PanicErr

\* C16 as stated: for every blob Deserialize returns to its caller either a
\* Result or an error and does not abort; a blob the envelope codec decodes
\* into an envelope without a key yields ErrUnregisteredKey or a codec's error.
C16_DeserializeNeverAborts ==
    last.op = "Deserialize" =>
        /\ last.ret.err # PanicErr
        /\ (Decoded(last).err = "nil" /\ Decoded(last).out.Key = <<>>) =>
               last.ret.err # NoErr

\* the type declares neither EnvelopeKey nor EnvelopeKeyPrefix
NoOverride(t) == KeyRecv(t) = "none" /\ PrefixRecv(t) = "none"

\* C17 as stated: two elements of a Register batch whose types are distinct
\* and declare neither EnvelopeKey nor EnvelopeKeyPrefix derive different
\* keys, also when the types have the same name in packages of the same
\* name at different import paths, so that the second is not refused.
C17_KeyInjective ==
    last.op = "Register" =>
        \A i, j \in 1..Len(last.arg) :
            (/\ i < j
             /\ Reaches(last, j)
             /\ NonNil(last.arg[i]) /\ NonNil(last.arg[j])
             /\ last.arg[i].type # last.arg[j].type
             /\ NoOverride(last.arg[i].type) /\ NoOverride(last.arg[j].type))
                => /\ KeyOf(last, i) # KeyOf(last, j)
                   /\ last.ret.err # Err("ErrReregisteredKey", KeyOf(last, j))

\* C18: a successful Deserialize(blob) returns the key decoded from the
\* envelope, the instance of that key's factory as the payload codec populated
\* it from the envelope's payload bytes, and the blob itself as Bytes(); a
\* successful Serialize(v) returns the derived key of v, v itself, and the
\* envelope codec's output for the key and the payload codec's bytes of v.
C18_ResultContents ==
    /\ (last.op = "Deserialize" /\ last.ret.err = NoErr) =>
           /\ DecodesKey(last)
           /\ DecodedKey(last) \in DOMAIN last.pre
           /\ last.ret.env.key = DecodedKey(last)
           /\ last.ret.env.payload =
                  SerdeDeserialize(serde, Decoded(last).out.Payload,
                                   Invoke(last.pre[DecodedKey(last)])).out
           /\ last.ret.env.data = last.arg
    /\ (last.op = "Serialize" /\ last.ret.err = NoErr) =>
           /\ last.ret.env.key = getKey(last.arg).key
           /\ last.ret.env.payload = last.arg
           /\ last.ret.env.data =
                  SerdeSerialize(envelopeSerde,
                                 Msg(getKey(last.arg).key,
                                     SerdeSerialize(serde, last.arg).out)).out

\* C18 witness: Serialize of a registered KeyedTest in value form returned
\* the value itself under its key, with the envelope of key and JSON payload.
C18_Witness ==
    /\ last.op = "Serialize"
    /\ last.arg = Val("KeyedTest", "testing")
    /\ last.ret.err = NoErr
    /\ last.ret.env.key = "test"
    /\ last.ret.env.payload = Val("KeyedTest", "testing")
    /\ last.ret.env.data = <<"1:", "test", "2:", "{", "Test", "testing", "}">>

\* the codec the last option named `name` in os gives, or dflt without one
Chosen(os, name, dflt) ==
    LET idx == {i \in 1..Len(os) : os[i].opt = name} IN
    IF idx = {} THEN dflt
    ELSE os[CHOOSE i \in idx : \A j \in idx : j <= i].serde

\* C19: the codecs are fixed at construction.  In every state any sequence of
\* calls reaches, the payload codec is the one WithSerde named, or JsonSerde
\* without that option, and the envelope codec is the one WithEnvelopeSerde
\* named, or ProtoSerde without that option.
C19_CodecsFixed ==
    /\ serde = Chosen(opts, "WithSerde", "JsonSerde")
    /\ envelopeSerde = Chosen(opts, "WithEnvelopeSerde", "ProtoSerde")

\* C19 witness: a registry built with WithEnvelopeSerde alone has registered
\* a type and failed a Deserialize, and its payload codec is still the default.
C19_Witness ==
    /\ opts = <<WithEnvelopeSerde("brokenDeserializer")>>
    /\ last.op = "Deserialize"
    /\ last.ret.err = Err("broken", "")
    /\ factories # <<>>
    /\ serde = "JsonSerde"
    /\ envelopeSerde = "brokenDeserializer"

\* the result the call has when it runs alone on the table it started on
Alone(c) ==
    CASE c.op = "Serialize" -> SerializeCall(c.pre, serde, envelopeSerde, c.arg)
      [] c.op = "Deserialize" -> DeserializeCall(c.pre, serde, envelopeSerde, c.arg)
      [] c.op = "IsRegistered" -> IsRegisteredCall(c.pre, c.arg)
      [] c.op = "Build" -> BuildCall(c.pre, c.arg)

\* C20: once registration has finished, however the steps of concurrent
\* Serialize, Deserialize, IsRegistered and Build calls interleave, each call
\* returns what it returns when run alone, succeeding or failing, and the
\* table is as it was when the call started.
C20_ReadersIndependent ==
    \A c \in Callers :
        running[c].pc = "done" =>
            /\ running[c].ret = Alone(running[c])
            /\ factories = running[c].pre

\* C20 witness: a Deserialize has succeeded whose steps ran while another
\* caller's Serialize was between its lookup and its codecs.
C20_Witness ==
    /\ running[1].op = "Deserialize"
    /\ running[1].pc = "done"
    /\ running[1].ret.err = NoErr
    /\ running[2].op = "Serialize"
    /\ running[2].pc = "serde"
    /\ running[2].pre = running[1].pre

\* the step is a call that returned an instance
ReturnsInstance ==
    last = NoCall /\ last'.op \in {"Build", "Deserialize"} /\ last'.ret.err = NoErr

\* C21: every Build and every Deserialize for a key registered through
\* Register returns an instance no earlier call returned; the call leaves
\* every instance returned before as it is, whatever was written into it, and
\* the instance Build returns holds the zero value.
C21_FreshInstances ==
    [][ReturnsInstance =>
           /\ last'.ret.ref \notin DOMAIN heap
           /\ last'.ret.ref \in DOMAIN heap'
           /\ \A a \in DOMAIN heap : heap'[a] = heap[a]
           /\ last'.op = "Build" =>
                  heap'[last'.ret.ref] = Zero(factories[last'.arg].type)]_vars

\* C21 witness: Build has returned a second instance of Test, holding the
\* zero value, after the caller wrote into the first.
C21_Witness ==
    /\ last.op = "Build"
    /\ last.arg = "envelope_test.Test"
    /\ last.ret.err = NoErr
    /\ last.ret.ref = 2
    /\ heap = <<[type |-> "Test", field |-> "mutated"], Zero("Test")>>

\* the call of caller c is a registration that has returned
Registered(c) == running[c].op \in {"Register", "RegisterFactory"} /\ running[c].pc = "done"

\* C22 as stated: of two Register / RegisterFactory calls that derive the same
\* key and run concurrently, in every interleaving exactly one returns success
\* and the other ErrReregisteredKey, and the stored factory is the one of the
\* successful call.
C22_RegistrationSerialised ==
    \A c, d \in Callers :
        (c # d /\ Registered(c) /\ Registered(d) /\ running[c].key = running[d].key) =>
            \/ /\ running[c].ret.err = NoErr
               /\ running[d].ret.err = Err("ErrReregisteredKey", running[d].key)
               /\ factories[running[c].key] = running[c].fn
            \/ /\ running[d].ret.err = NoErr
               /\ running[c].ret.err = Err("ErrReregisteredKey", running[c].key)
               /\ factories[running[d].key] = running[d].fn

\* C22 amended: registration of one key is not serialised by the registry.  A
\* call that starts when the key is in the table returns ErrReregisteredKey;
\* a call that returns, returns success or ErrReregisteredKey, and then the
\* key is in the table under the factory of a call that returned success.
C22_RegistrationUnserialised ==
    \A c \in Callers :
        Registered(c) =>
            LET k == running[c].key IN
            /\ running[c].ret.err \in {NoErr, Err("ErrReregisteredKey", k)}
            /\ k \in DOMAIN running[c].pre =>
                   running[c].ret.err = Err("ErrReregisteredKey", k)
            /\ k \in DOMAIN factories
            /\ \E d \in Callers :
                   /\ Registered(d)
                   /\ running[d].key = k
                   /\ running[d].ret.err = NoErr
                   /\ factories[k] = running[d].fn

\* C22 witness: two calls deriving the key of Test have both returned success,
\* and the table holds the factory of the second.
C22_Witness ==
    /\ Registered(1) /\ running[1].arg = Val("Test", "")
    /\ Registered(2) /\ running[2].arg = Val("fork.Test", "")
    /\ running[1].ret.err = NoErr
    /\ running[2].ret.err = NoErr
    /\ factories["envelope_test.Test"] = NewFactory("fork.Test")

\* C23: membership is consistent in every reachable state of the registry,
\* looked at where a call can be made: for every value v with derived key k,
\* IsRegistered(v) is true if and only if Build(k) succeeds, if and only if
\* Serialize(v) does not fail with ErrUnregisteredKey, if and only if some
\* earlier Register or RegisterFactory element deriving k was inserted
\* successfully.
C23_MembershipConsistent ==
    last = NoCall =>
        \A v \in Values :
            ~getKey(v).panic =>
                LET k == getKey(v).key
                    isRegistered == IsRegisteredCall(factories, v).exists
                    builds == BuildCall(factories, k).err = NoErr
                    serializes == SerializeCall(factories, serde, envelopeSerde, v).err
                                      # Err("ErrUnregisteredKey", k)
                IN  /\ isRegistered <=> builds
                    /\ builds <=> serializes
                    /\ serializes <=> k \in DOMAIN inserted

\* C23 witness: the key "test" has been inserted and a value of another type
\* deriving it is registered, while the key of Test has not been inserted and
\* Test is not registered.
C23_Witness ==
    /\ last = NoCall
    /\ "test" \in DOMAIN inserted
    /\ IsRegisteredCall(factories, Val("KeyedPrefixedTest", "")).exists
    /\ BuildCall(factories, "test").err = NoErr
    /\ "envelope_test.Test" \notin DOMAIN inserted
    /\ ~IsRegisteredCall(factories, Val("Test", "")).exists
    /\ SerializeCall(factories, serde, envelopeSerde, Val("Test", "")).err
           = Err("ErrUnregisteredKey", "envelope_test.Test")

\* a value of a type no stored factory makes, whose key is stored all the same
OfUnregisteredType(u) ==
    /\ ~getKey(u).panic
    /\ getKey(u).key \in DOMAIN inserted
    /\ ~TypeRegistered(inserted, u.type)

====
